---- MODULE Spec2Model ----
(***************************************************************************)
(* A model of ntp-time-sync (src/src/NtpTimeSync.ts, the snapshot that     *)
(* starts at line 458): the module-level poll cache, getTime,              *)
(* collectSamples with its round loop, and getNetworkTime with the         *)
(* callbacks of one datagram exchange.                                     *)
(*                                                                         *)
(* Times are milliseconds, as Date.now() gives them.  A number that may    *)
(* be a fraction (an offset, a delay, an average) is a pair <<n, d>> in    *)
(* lowest terms with d > 0.  The precision of a result, a square root, is  *)
(* carried by its square (stdDevSq): two precisions are equal exactly      *)
(* when their squares are.  An optional value (undefined or a value) is a  *)
(* sequence of length 0 or 1.                                              *)
(*                                                                         *)
(* The constructor works on JavaScript values: a value is a record         *)
(* [kind, v] with kind "number" (v a fraction), "string" (v the sequence   *)
(* of its characters), "array" (v a sequence of values), "date" (v its     *)
(* time), "object" (v a function from own keys to values) or "throw" (an   *)
(* exception, v its message).                                              *)
(***************************************************************************)
EXTENDS Integers, Sequences, FiniteSets, TLC

\* ------------------------------------------------------------------ bounds
\* the local clock advances in steps of TickMs, MaxTicks times at most
TickMs == 1000
MaxTicks == 3
\* the counters of rounds and of close/resolve/reject calls stop counting here
MaxCount == 3
\* constructions and getInstance calls in one run
MaxObjects == 3

\* ---------------------------------------------------------------- numbers
Abs(x) == IF x < 0 THEN -x ELSE x

\* The arithmetic helpers bind each argument in a one-element set, so that
\* it is evaluated once and not again at each of its uses.
The(S) == CHOOSE x \in S : TRUE

\* Euclid
RECURSIVE Gcd(_, _)
Gcd(a, b) == IF b = 0 THEN a ELSE The({Gcd(y, x % y) : x \in {a}, y \in {b}})

\* n/d in lowest terms, d > 0
Rat(n, d) ==
  The({<<x \div g, y \div g>> : x \in {n}, y \in {d}, g \in {Gcd(Abs(n), d)}})

RInt(x) == <<x, 1>>
RAdd(a, b) ==
  The({Rat(x[1] * y[2] + y[1] * x[2], x[2] * y[2]) : x \in {a}, y \in {b}})
RSub(a, b) ==
  The({Rat(x[1] * y[2] - y[1] * x[2], x[2] * y[2]) : x \in {a}, y \in {b}})
RMul(a, b) == The({Rat(x[1] * y[1], x[2] * y[2]) : x \in {a}, y \in {b}})
RDivInt(a, k) == The({Rat(x[1], x[2] * k) : x \in {a}})
RLess(a, b) == The({x[1] * y[2] < y[1] * x[2] : x \in {a}, y \in {b}})
\* variant: no floor
RFirst(a, b) == a
RMax(a, b) == The({IF RLess(x, y) THEN y ELSE x : x \in {a}, y \in {b}})

\* ToIntegerOrInfinity: the fraction is dropped, toward zero
Trunc(a) == IF a[1] >= 0 THEN a[1] \div a[2] ELSE -((-a[1]) \div a[2])

\* date.setUTCMilliseconds(date.getUTCMilliseconds() + offset) on a Date of
\* time t: the time value of a Date is a whole number of milliseconds
setUTCMilliseconds(t, offset) ==
  (t - (t % 1000)) + Trunc(RAdd(RInt(t % 1000), offset))

RECURSIVE Pow2(_)
Pow2(e) == IF e = 0 THEN 1 ELSE 2 * Pow2(e - 1)

\* Math.pow(2, e) for an integer e of either sign
MathPow2(e) == IF e >= 0 THEN <<Pow2(e), 1>> ELSE <<1, Pow2(-e)>>

\* ----------------------------------------------------------- configuration
\* Two instances with different options, and a third with two servers
\* that needs the replies of more than one round.
Instances == {1, 2}
ManyRounds == 3

\* this._options of instance i: the number of servers and the options the
\* round loop, the cache test and the validator read
Options(i) ==
  IF i = 1
  THEN [servers |-> 1, sampleCount |-> 2, maxRetries |-> 2,
        ntpDefaults |-> [version |-> 4, minPoll |-> 0, maxDispersion |-> 16,
                         maxStratum |-> 16, precision |-> -18]]
  ELSE IF i = 2
  THEN [servers |-> 2, sampleCount |-> 1, maxRetries |-> 1,
        ntpDefaults |-> [version |-> 4, minPoll |-> 1, maxDispersion |-> 16,
                         maxStratum |-> 16, precision |-> -18]]
  ELSE [servers |-> 2, sampleCount |-> 3, maxRetries |-> 2,
        ntpDefaults |-> [version |-> 4, minPoll |-> 0, maxDispersion |-> 16,
                         maxStratum |-> 16, precision |-> -18]]

Servers(i) == 1..Options(i).servers

\* ----------------------------------------------------------------- options
NumV(n) == [kind |-> "number", v |-> RInt(n)]
FracV(n, d) == [kind |-> "number", v |-> Rat(n, d)]
StrV(chars) == [kind |-> "string", v |-> chars]
ArrV(items) == [kind |-> "array", v |-> items]
DateV(t) == [kind |-> "date", v |-> t]
ObjV(fields) == [kind |-> "object", v |-> fields]
Throw(message, key) == [kind |-> "throw", v |-> <<message, key>>]

PoolServer(n) ==
  StrV(<<n, ".", "p", "o", "o", "l", ".", "n", "t", "p", ".", "o", "r", "g">>)

\* new Date("Jan 01 1900 GMT").getTime(), in days
Jan1900 == -25567

NtpTimeSyncDefaultOptions ==
  ObjV([servers |-> ArrV(<<PoolServer("0"), PoolServer("1"), PoolServer("2"),
                          PoolServer("3")>>),
        sampleCount |-> NumV(8),
        replyTimeout |-> NumV(3000),
        maxRetries |-> NumV(3),
        ntpDefaults |->
          ObjV([port |-> NumV(123), version |-> NumV(4),
                tolerance |-> FracV(15, 1000000), minPoll |-> NumV(4),
                maxPoll |-> NumV(17), maxDispersion |-> NumV(16),
                minDispersion |-> FracV(5, 1000), maxDistance |-> NumV(1),
                maxStratum |-> NumV(16), precision |-> NumV(-18),
                referenceDate |-> DateV(Jan1900)])])

\* Object.entries(x): the own enumerable keys; a Date and a number have none
Entries(x) == IF x.kind = "object" THEN DOMAIN x.v ELSE {}

\* key in x
In(key, x) == x.kind = "object" /\ key \in DOMAIN x.v

RECURSIVE recursiveResolveOptions(_, _)
recursiveResolveOptions(options, defaults) ==
  LET entry(key) ==
        IF ~In(key, options) THEN defaults.v[key]
        ELSE IF ~In(key, defaults) THEN Throw("Invalid option", key)
        ELSE IF options.v[key].kind = "array" THEN options.v[key]
        ELSE IF options.v[key].kind \in {"object", "date"}
          THEN recursiveResolveOptions(options.v[key], defaults.v[key])
        ELSE options.v[key]
      thrown == {key \in Entries(defaults) : entry(key).kind = "throw"}
  IN  IF thrown # {} THEN entry(CHOOSE key \in thrown : TRUE)
      ELSE ObjV([key \in Entries(defaults) |-> entry(key)])

\* the index of the first ":" of chars, or 0
RECURSIVE IndexOfColon(_, _)
IndexOfColon(chars, from) ==
  IF from > Len(chars) THEN 0
  ELSE IF chars[from] = ":" THEN from
  ELSE IndexOfColon(chars, from + 1)

\* chars.split(":"), all parts
RECURSIVE SplitAll(_)
SplitAll(chars) ==
  LET k == IndexOfColon(chars, 1)
  IN  IF k = 0 THEN <<chars>>
      ELSE <<SubSeq(chars, 1, k - 1)>> \o SplitAll(SubSeq(chars, k + 1, Len(chars)))

\* server.split(":", 2): the first two parts at most
Split2(chars) ==
  LET parts == SplitAll(chars)
  IN  SubSeq(parts, 1, IF Len(parts) < 2 THEN Len(parts) ELSE 2)

Digits == {"0", "1", "2", "3", "4", "5", "6", "7", "8", "9"}
DigitValue(ch) ==
  CASE ch = "0" -> 0 [] ch = "1" -> 1 [] ch = "2" -> 2 [] ch = "3" -> 3
    [] ch = "4" -> 4 [] ch = "5" -> 5 [] ch = "6" -> 6 [] ch = "7" -> 7
    [] ch = "8" -> 8 [] ch = "9" -> 9

RECURSIVE Decimal(_)
Decimal(chars) ==
  IF chars = <<>> THEN 0
  ELSE 10 * Decimal(SubSeq(chars, 1, Len(chars) - 1)) + DigitValue(chars[Len(chars)])

\* Number(part) of an optional string of digits and letters: <<>> is NaN,
\* which undefined and a string that is not a numeral give
ToNumber(part) ==
  IF part = <<>> THEN <<>>
  ELSE IF \A k \in 1..Len(part[1]) : part[1][k] \in Digits
    THEN <<Decimal(part[1])>>
  ELSE <<>>

\* variant: the port of the server string is not looked at
EndpointDefaultPort(server, port) ==
  ObjV([host |-> StrV(Split2(server.v)[1]), port |-> port])

\* one element of servers of this._options
Endpoint(server, port) ==
  LET parts == Split2(server.v)
      n == ToNumber(IF Len(parts) < 2 THEN <<>> ELSE <<parts[2]>>)
  IN  ObjV([host |-> StrV(parts[1]),
            port |-> IF n # <<>> /\ n[1] # 0 THEN NumV(n[1]) ELSE port])

\* new NtpTimeSync(options): this._options, or what the constructor throws
Constructor(options) ==
  LET serverConfig == IF In("servers", options) THEN options.v.servers
                      ELSE NtpTimeSyncDefaultOptions.v.servers
      mergedConfig == recursiveResolveOptions(options, NtpTimeSyncDefaultOptions)
  IN  IF mergedConfig.kind = "throw" THEN mergedConfig
      ELSE ObjV([mergedConfig.v EXCEPT
                   !.servers =
                     ArrV([k \in 1..Len(serverConfig.v) |->
                             Endpoint(serverConfig.v[k],
                                      mergedConfig.v.ntpDefaults.v.port)])])

\* the options objects callers pass
NoOptions == ObjV(<<>>)
WithServers ==
  ObjV([servers |-> ArrV(<<PoolServer("0"),
                           StrV(PoolServer("0").v \o <<":", "5", "4", "3", "2", "1">>)>>)])
WithOverrides ==
  ObjV([servers |-> ArrV(<<StrV(<<"a">>), StrV(<<"b", ":", "7">>)>>),
        sampleCount |-> NumV(2),
        ntpDefaults |-> ObjV([port |-> NumV(1234), minPoll |-> NumV(0)])])
WithUnknownKey == ObjV([sampleCount |-> NumV(2), timeout |-> NumV(1)])
WithUnknownNestedKey == ObjV([ntpDefaults |-> ObjV([maxPol |-> NumV(10)])])
WithReferenceDate == ObjV([ntpDefaults |-> ObjV([referenceDate |-> DateV(0)])])

OptionInputs ==
  {NoOptions, WithServers, WithOverrides, WithUnknownKey, WithUnknownNestedKey,
   WithReferenceDate, NtpTimeSyncDefaultOptions}

\* ------------------------------------------------------------ createPacket
\* Strings are sequences of characters.
RECURSIVE Repeat(_, _)
Repeat(char, n) == IF n <= 0 THEN <<>> ELSE <<char>> \o Repeat(char, n - 1)

\* (n >>> 0).toString(2) for n >= 0
RECURSIVE ToBinary(_)
ToBinary(n) ==
  IF n < 2 THEN <<IF n = 1 THEN "1" ELSE "0">>
  ELSE ToBinary(n \div 2) \o <<IF n % 2 = 1 THEN "1" ELSE "0">>

\* String.prototype.substring(0, end): an end below 0 counts as 0
Substring0(string, end) ==
  SubSeq(string, 1, IF end < 0 THEN 0 ELSE IF end > Len(string) THEN Len(string) ELSE end)

\* String.prototype.substr(start, length)
Substr(string, start, length) ==
  SubSeq(string, start + 1,
         IF start + length > Len(string) THEN Len(string) ELSE start + length)

\* variant: the padding is put on the right
padRight(string, length) ==
  string \o Substring0(Repeat("0", length), length - Len(string))

\* NtpTimeSync.pad(string, length) with char "0" and side "left"
pad(string, length) ==
  Substring0(Repeat("0", length), length - Len(string)) \o string

\* the number of binary digits at the start of string
RECURSIVE LeadingBits(_)
LeadingBits(string) ==
  IF string = <<>> \/ string[1] \notin {"0", "1"} THEN 0
  ELSE 1 + LeadingBits(Tail(string))

RECURSIVE BitsValue(_)
BitsValue(bits) ==
  IF bits = <<>> THEN 0
  ELSE 2 * BitsValue(SubSeq(bits, 1, Len(bits) - 1))
       + (IF bits[Len(bits)] = "1" THEN 1 ELSE 0)

\* parseInt(string, 2): a sign, then the binary digits up to the first
\* other character; <<>> is NaN
ParseInt2(string) ==
  LET negative == string # <<>> /\ string[1] = "-"
      body == IF negative THEN Tail(string) ELSE string
      k == LeadingBits(body)
  IN  IF k = 0 THEN <<>>
      ELSE <<(IF negative THEN -1 ELSE 1) * BitsValue(SubSeq(body, 1, k))>>

\* the byte Buffer.from makes of an array element: NaN gives 0, a number
\* its value modulo 256
ToUint8(x) == IF x = <<>> THEN 0 ELSE x[1] % 256

\* What (seconds * Math.pow(2, 32)).toString(2) can deliver: 64 digits for
\* a date between 1968 and 2036, fewer for a reference date closer to the
\* clock, 65 for a date after 2036, and digits with a point when the
\* product is not a whole number.
TimestampDigits ==
  {<<"1">> \o ToBinary(1735689600) \o pad(ToBinary(1234567890), 32),
   ToBinary(1) \o pad(ToBinary(0), 32),
   <<"1", "0">> \o pad(ToBinary(7), 31) \o pad(ToBinary(255), 32),
   ToBinary(4194) \o <<".">> \o ToBinary(1207)}

\* createPacket(leapIndicator, ntpVersion, mode) of instance i; an argument
\* is <<>> when it is not given, and ntpTimestamp is the numeral of the
\* current time; the result is the sequence of the bytes of the Buffer
createPacket(leapIndicator, ntpVersion, mode, ntpTimestamp, i) ==
  LET li == IF leapIndicator = <<>> THEN 3 ELSE leapIndicator[1]
      version == IF ntpVersion = <<>> \/ ntpVersion = <<0>>
                 THEN Options(i).ntpDefaults.version ELSE ntpVersion[1]
      m == IF mode = <<>> THEN 3 ELSE mode[1]
      first == pad(ToBinary(li), 2) \o pad(ToBinary(version), 3)
                 \o pad(ToBinary(m), 3)
      stamp == pad(ntpTimestamp, 64)
      ntpData ==
        [k \in 1..48 |->
           IF k = 1 THEN ParseInt2(first)
           ELSE IF k \in 25..32 THEN ParseInt2(Substr(stamp, 8 * (k - 25), 8))
           ELSE IF k \in 41..48 THEN ParseInt2(Substr(stamp, 8 * (k - 41), 8))
           ELSE <<0>>]
  IN  [k \in 1..48 |-> ToUint8(ntpData[k])]

\* ------------------------------------------------------------------ replies
\* What NtpPacketParser.parse delivers.  rootDelay and rootDispersion are
\* the milliseconds between the reference date and the Date the parser gives.
PacketA ==
  [version |-> 4, leapIndicator |-> 0, stratum |-> 2, rootDelay |-> 20,
   rootDispersion |-> 10, originTimestamp |-> 900, receiveTimestamp |-> 950,
   transmitTimestamp |-> 960, precision |-> -20]

PacketB ==
  [version |-> 4, leapIndicator |-> 0, stratum |-> 3, rootDelay |-> 40,
   rootDispersion |-> 10, originTimestamp |-> 800, receiveTimestamp |-> 1480,
   transmitTimestamp |-> 1490, precision |-> -18]

PacketU ==
  [version |-> 4, leapIndicator |-> 3, stratum |-> 0, rootDelay |-> 0,
   rootDispersion |-> 0, originTimestamp |-> 900, receiveTimestamp |-> 950,
   transmitTimestamp |-> 960, precision |-> -20]

\* stratum 16, leap indicator 0
PacketS ==
  [version |-> 4, leapIndicator |-> 0, stratum |-> 16, rootDelay |-> 20,
   rootDispersion |-> 10, originTimestamp |-> 900, receiveTimestamp |-> 950,
   transmitTimestamp |-> 960, precision |-> -20]

\* a version above the configured one, and leap indicator 3
PacketV ==
  [version |-> 5, leapIndicator |-> 3, stratum |-> 2, rootDelay |-> 20,
   rootDispersion |-> 10, originTimestamp |-> 900, receiveTimestamp |-> 950,
   transmitTimestamp |-> 960, precision |-> -20]

\* transmitted before it was received: the round trip comes out negative,
\* and the offset is not a whole number of milliseconds
PacketN ==
  [version |-> 4, leapIndicator |-> 0, stratum |-> 2, rootDelay |-> 20,
   rootDispersion |-> 10, originTimestamp |-> 900, receiveTimestamp |-> 1500,
   transmitTimestamp |-> 1001, precision |-> -20]

Packets == {PacketA, PacketB, PacketU, PacketS, PacketV, PacketN}

\* a root distance of exactly maxDispersion: rootDelay / 2 + rootDispersion
\* is 16 seconds
PacketD ==
  [version |-> 4, leapIndicator |-> 0, stratum |-> 2, rootDelay |-> 30000,
   rootDispersion |-> 1000, originTimestamp |-> 900, receiveTimestamp |-> 950,
   transmitTimestamp |-> 960, precision |-> -20]

\* an origin timestamp that the local clock has not reached
PacketF ==
  [version |-> 4, leapIndicator |-> 0, stratum |-> 2, rootDelay |-> 20,
   rootDispersion |-> 10, originTimestamp |-> 9000, receiveTimestamp |-> 9050,
   transmitTimestamp |-> 9060, precision |-> -20]

\* an older version, and the largest stratum and root distance that pass
PacketO ==
  [version |-> 3, leapIndicator |-> 1, stratum |-> 15, rootDelay |-> 29998,
   rootDispersion |-> 1000, originTimestamp |-> 1000, receiveTimestamp |-> 950,
   transmitTimestamp |-> 960, precision |-> -20]

\* one reply for each way of failing a check of acceptResponse, and two
\* that pass
CheckedPackets ==
  {PacketA, PacketO, PacketU, PacketS, PacketV, PacketD, PacketF}

\* The reply of a server whose clock is theta ms ahead of the local clock,
\* received at local time now after d ms on the way out, 2 ms in the server
\* and d ms on the way back.
SymmetricPacket(theta, d, now) ==
  [version |-> 4, leapIndicator |-> 0, stratum |-> 2, rootDelay |-> 20,
   rootDispersion |-> 10,
   originTimestamp |-> now - 2 * d - 2,
   receiveTimestamp |-> (now - 2 * d - 2) + d + theta,
   transmitTimestamp |-> (now - 2 * d - 2) + d + theta + 2,
   precision |-> -20]

\* clock differences smaller than, equal to and larger than the one-way
\* delays, of both signs
Thetas == {-30, -10, -5, 0, 5, 10, 30}
Delays == {0, 10}

\* NtpReceivedPacket: the parsed reply and the local time of its receipt
Received(pkt, now) == [packet |-> pkt, destinationTimestamp |-> now]

\* variant: a stratum equal to maxStratum passes
acceptResponseStratumAbove(data, i, now) ==
  LET d == Options(i).ntpDefaults
      p == data.packet
  IN  IF p.version > d.version THEN "Format error: version"
      ELSE IF p.leapIndicator = 3 \/ p.stratum > d.maxStratum
        THEN "Stratum error"
      ELSE IF p.rootDelay + 2 * p.rootDispersion >= 2000 * d.maxDispersion
        THEN "Distance error"
      ELSE IF p.originTimestamp > now THEN "Format error: origin"
      ELSE "ok"

\* variant: a root distance equal to maxDispersion passes
acceptResponseDistanceAbove(data, i, now) ==
  LET d == Options(i).ntpDefaults
      p == data.packet
  IN  IF p.version > d.version THEN "Format error: version"
      ELSE IF p.leapIndicator = 3 \/ p.stratum >= d.maxStratum
        THEN "Stratum error"
      ELSE IF p.rootDelay + 2 * p.rootDispersion > 2000 * d.maxDispersion
        THEN "Distance error"
      ELSE IF p.originTimestamp > now THEN "Format error: origin"
      ELSE "ok"

\* acceptResponse: "ok", or the error it throws
acceptResponse(data, i, now) ==
  LET d == Options(i).ntpDefaults
      p == data.packet
  IN  IF p.version > d.version THEN "Format error: version"
      ELSE IF p.leapIndicator = 3 \/ p.stratum >= d.maxStratum
        THEN "Stratum error"
      ELSE IF p.rootDelay + 2 * p.rootDispersion >= 2000 * d.maxDispersion
        THEN "Distance error"
      ELSE IF p.originTimestamp > now THEN "Format error: origin"
      ELSE "ok"

\* ------------------------------------------------------------------ samples
\* ntpDefaults.tolerance: 15e-6
Tolerance == Rat(3, 200000)

\* one SampleData of collectSamples.  The dispersion is kept as the three
\* terms of its sum: their common denominator is beyond the integers here.
Sample(data, i) ==
  LET p == data.packet
      t4 == data.destinationTimestamp
      offsetSign == IF p.transmitTimestamp > t4 THEN 1 ELSE -1
      offset == Rat((Abs(p.receiveTimestamp - p.originTimestamp)
                     + Abs(p.transmitTimestamp - t4)) * offsetSign, 2)
      delay == RMax(RInt(t4 - p.originTimestamp
                         - (p.receiveTimestamp - p.transmitTimestamp)),
                    MathPow2(Options(i).ntpDefaults.precision))
      dispersion == <<MathPow2(p.precision),
                      MathPow2(Options(i).ntpDefaults.precision),
                      RMul(Tolerance, RInt(t4 - p.originTimestamp))>>
  IN  [data |-> data, offset |-> offset, delay |-> delay,
       dispersion |-> dispersion]

\* variant: the samples are sorted by the precision term of the dispersion
RECURSIVE InsertByDispersion(_, _)
InsertByDispersion(sorted, s) ==
  IF sorted = <<>> THEN <<s>>
  ELSE IF RLess(s.dispersion[1], sorted[Len(sorted)].dispersion[1])
    THEN Append(InsertByDispersion(SubSeq(sorted, 1, Len(sorted) - 1), s),
                sorted[Len(sorted)])
    ELSE Append(sorted, s)

\* samples.sort by ascending delay: Array.prototype.sort is stable
RECURSIVE Insert(_, _)
Insert(sorted, s) ==
  IF sorted = <<>> THEN <<s>>
  ELSE IF RLess(s.delay, sorted[Len(sorted)].delay)
    THEN Append(Insert(SubSeq(sorted, 1, Len(sorted) - 1), s), sorted[Len(sorted)])
    ELSE Append(sorted, s)

\* variant: the order of arrival is kept
SortNone(samples) == samples

RECURSIVE SortByDelay(_)
SortByDelay(samples) ==
  IF samples = <<>> THEN <<>>
  ELSE Insert(SortByDelay(SubSeq(samples, 1, Len(samples) - 1)),
              samples[Len(samples)])

\* samples.slice(0, n)
Slice(samples, n) == SubSeq(samples, 1, IF n < Len(samples) THEN n ELSE Len(samples))

\* ntpResults.forEach: one sample for each accepted reply, in order
RECURSIVE Samples(_, _)
Samples(ntpResults, i) ==
  IF ntpResults = <<>> THEN <<>>
  ELSE Append(Samples(SubSeq(ntpResults, 1, Len(ntpResults) - 1), i),
              Sample(ntpResults[Len(ntpResults)], i))

\* the samples collectSamples returns for the accepted replies ntpResults
SelectSamples(ntpResults, i) ==
  Slice(SortByDelay(Samples(ntpResults, i)), Options(i).sampleCount)

RECURSIVE RSum(_)
RSum(values) ==
  IF values = <<>> THEN RInt(0)
  ELSE The({RAdd(RSum(SubSeq(v, 1, Len(v) - 1)), v[Len(v)]) : v \in {values}})

\* NtpTimeSync.avg
avg(values) == The({RDivInt(RSum(v), Len(v)) : v \in {values}})

\* values.map(value => (value - a) * (value - a))
RECURSIVE SquareDiffs(_, _)
SquareDiffs(values, a) ==
  IF values = <<>> THEN <<>>
  ELSE The({Append(SquareDiffs(SubSeq(v, 1, Len(v) - 1), a), RMul(diff, diff)) :
              v \in {values}, diff \in {RSub(values[Len(values)], a)}})

\* variant: the mean of the squares, not of the squared deviations
stdDevSqRaw(values) ==
  The({avg(SquareDiffs(v, a)) : v \in {values}, a \in {RInt(0)}})

\* the square of NtpTimeSync.stdDev
stdDevSq(values) ==
  The({avg(SquareDiffs(v, a)) : v \in {values}, a \in {avg(values)}})

\* samples.map(sample => sample.offset)
RECURSIVE Offsets(_)
Offsets(samples) ==
  IF samples = <<>> THEN <<>>
  ELSE Append(Offsets(SubSeq(samples, 1, Len(samples) - 1)),
              samples[Len(samples)].offset)

\* offset and precision of getTime for the selected samples
Aggregate(samples) ==
  The({[offset |-> RDivInt(RSum(offsets), Len(samples)),
        precision |-> stdDevSq(offsets)] : offsets \in {Offsets(samples)}})

\* -------------------------------------------------------------------- state
Calls == {1, 2}

VARIABLES
  clock,       \* Date.now()
  lastPoll,    \* module variable lastPoll: <<>> (undefined) or <<ms>>
  lastResult,  \* module variable lastResult: <<>> or <<[offset, precision]>>
  calls,       \* the getTime calls: position, arguments and locals of each
  ex,          \* the exchanges (getNetworkTime closures) of a call's round
  lastDone,    \* history: result and time of the synchronization completed last
  singleton,   \* module variable singleton: <<>> or <<the number of an object>>
  objects,     \* this._options of the NtpTimeSync objects, numbered by creation
  returned,    \* history: the constructions and getInstance calls so far
  packetArgs,  \* history: <<>> or the arguments of the last createPacket call
  packet       \* <<>> or the bytes of the Buffer that call returned

vars ==
  <<clock, lastPoll, lastResult, calls, ex, lastDone, singleton, objects, returned,
    packetArgs, packet>>

\* the state of synchronization, and the state of construction
sync == <<clock, lastPoll, lastResult, calls, ex, lastDone>>
construction == <<singleton, objects, returned>>
encoder == <<packetArgs, packet>>

Inc(n) == IF n < MaxCount THEN n + 1 ELSE n

IdleCall ==
  [pc |-> "idle", inst |-> 1, force |-> FALSE, retry |-> 0, ntpResults |-> <<>>,
   samples |-> <<>>, result |-> <<>>, cached |-> FALSE,
   \* the now field of the result of getTime
   date |-> <<>>,
   \* the Date that now() takes before it calls getTime, and what it returns
   entry |-> <<>>, nowDate |-> <<>>,
   \* history: the time at which the result was produced
   at |-> <<>>,
   \* history
   rounds |-> 0, accepted |-> 0, expect |-> <<>>]

\* the closure of getNetworkTime right after the promise executor has run:
\* socket created, timeout set, packet handed to client.send
NewExchange ==
  [socket |-> "open", hasFinished |-> FALSE, timeoutHandler |-> TRUE,
   sendCallback |-> "pending", listening |-> FALSE,
   promise |-> "pending", error |-> "none", data |-> <<>>,
   \* the promise collectSamples chains on it: "pending", "ok" or the error
   outcome |-> "pending",
   \* history: close() calls, resolve/reject calls, an "error" event was
   \* emitted and the exchange has not finished since
   closes |-> 0, settles |-> 0, errorEvent |-> FALSE]

\* variant: the round asks the first server only
NewRoundFirstOnly(i) == [s \in {1} |-> NewExchange]

\* servers.forEach: one exchange for each server of this._options
NewRound(i) == [s \in Servers(i) |-> NewExchange]

Init ==
  /\ clock = TickMs
  /\ lastPoll = <<>>
  /\ lastResult = <<>>
  /\ calls = [c \in Calls |-> IdleCall]
  /\ ex = [c \in Calls |-> <<>>]
  /\ lastDone = <<>>
  /\ singleton = <<>>
  /\ objects = <<>>
  /\ returned = <<>>
  /\ packetArgs = <<>>
  /\ packet = <<>>

\* ------------------------------------------------------------ getNetworkTime
\* variant: the socket is not closed
cleanupNoClose(e) == e

\* NtpTimeSync.cleanup: client.close() inside try/catch
cleanup(e) ==
  [e EXCEPT !.socket = "closed", !.closes = Inc(@)]

\* variant: the timer is not cleared
errorCallbackKeepsTimer(e, err) ==
  IF e.hasFinished THEN e
  ELSE [cleanup(e) EXCEPT !.hasFinished = TRUE, !.promise = "rejected",
                          !.settles = Inc(@), !.error = err, !.outcome = err,
                          !.errorEvent = FALSE]

errorCallback(e, err) ==
  LET e1 == [e EXCEPT !.timeoutHandler = FALSE]
  IN  IF e.hasFinished THEN e1
      ELSE [cleanup(e1) EXCEPT !.hasFinished = TRUE, !.promise = "rejected",
                               !.settles = Inc(@), !.error = err, !.outcome = err,
                               !.errorEvent = FALSE]

\* client.on("error", (err) => errorCallback): the listener returns the
\* function errorCallback and does not call it
onError(e) == [e EXCEPT !.errorEvent = TRUE]

\* the callback given to client.send
onSend(e, failed) ==
  LET e1 == [e EXCEPT !.sendCallback = "done"]
  IN  IF e.hasFinished THEN e1
      ELSE IF failed THEN errorCallback(e1, "Send error")
      ELSE [e1 EXCEPT !.listening = TRUE]

\* variant: no test of hasFinished
onMessageUnguarded(e, pkt, now, i) ==
  LET data == Received(pkt, now)
  IN  IF e.socket = "closed"
      THEN [e EXCEPT !.listening = FALSE, !.timeoutHandler = FALSE,
                     !.closes = Inc(@)]
      ELSE [e EXCEPT !.listening = FALSE, !.timeoutHandler = FALSE,
                     !.socket = "closed", !.closes = Inc(@),
                     !.hasFinished = TRUE, !.promise = "resolved",
                     !.settles = Inc(@), !.data = <<data>>,
                     !.outcome = acceptResponse(data, i, now),
                     !.errorEvent = FALSE]

\* the listener of client.once("message"), followed by the then() of
\* collectSamples that runs acceptResponse on the reply
onMessage(e, pkt, now, i) ==
  LET e1 == [e EXCEPT !.listening = FALSE]
      data == Received(pkt, now)
  IN  IF e.hasFinished THEN e1
      ELSE IF e.socket = "closed"
        \* client.close() throws on a closed socket: the listener is left
        THEN [e1 EXCEPT !.timeoutHandler = FALSE, !.closes = Inc(@)]
      ELSE [e1 EXCEPT !.timeoutHandler = FALSE, !.socket = "closed",
                      !.closes = Inc(@), !.hasFinished = TRUE,
                      !.promise = "resolved", !.settles = Inc(@),
                      !.data = <<data>>,
                      !.outcome = acceptResponse(data, i, now),
                      !.errorEvent = FALSE]

\* the listener of client.once("message") for a datagram on which
\* NtpPacketParser.parse throws: the timer is cleared and the socket closed,
\* then the exception leaves the listener
onMessageThrow(e) ==
  LET e1 == [e EXCEPT !.listening = FALSE]
  IN  IF e.hasFinished THEN e1
      ELSE IF e.socket = "closed"
        THEN [e1 EXCEPT !.timeoutHandler = FALSE, !.closes = Inc(@)]
      ELSE [e1 EXCEPT !.timeoutHandler = FALSE, !.socket = "closed",
                      !.closes = Inc(@)]

Collecting(c) == calls[c].pc = "collecting"

SendCallback(c, s, failed) ==
  /\ Collecting(c) /\ s \in DOMAIN ex[c]
  /\ ex[c][s].sendCallback = "pending"
  /\ ex' = [ex EXCEPT ![c][s] = onSend(@, failed)]
  /\ UNCHANGED <<clock, lastPoll, lastResult, calls, lastDone>>
  /\ UNCHANGED <<construction, encoder>>

Message(c, s, pkt) ==
  /\ Collecting(c) /\ s \in DOMAIN ex[c]
  /\ ex[c][s].listening
  /\ ex' = [ex EXCEPT ![c][s] = onMessage(@, pkt, clock, calls[c].inst)]
  /\ calls' = [calls EXCEPT ![c].accepted =
                 IF ex'[c][s].outcome = "ok" /\ ex[c][s].outcome # "ok"
                 THEN Inc(@) ELSE @]
  /\ UNCHANGED <<clock, lastPoll, lastResult, lastDone>>
  /\ UNCHANGED <<construction, encoder>>

\* a datagram arrives that the decoder cannot decode
Undecodable(c, s) ==
  /\ Collecting(c) /\ s \in DOMAIN ex[c]
  /\ ex[c][s].listening
  /\ ex' = [ex EXCEPT ![c][s] = onMessageThrow(@)]
  /\ UNCHANGED <<clock, lastPoll, lastResult, calls, lastDone>>
  /\ UNCHANGED <<construction, encoder>>

Timeout(c, s) ==
  /\ Collecting(c) /\ s \in DOMAIN ex[c]
  /\ ex[c][s].timeoutHandler
  /\ ex' = [ex EXCEPT ![c][s] = errorCallback(@, "Timeout")]
  /\ UNCHANGED <<clock, lastPoll, lastResult, calls, lastDone>>
  /\ UNCHANGED <<construction, encoder>>

\* the socket emits "error" while the exchange waits
ChannelError(c, s) ==
  /\ Collecting(c) /\ s \in DOMAIN ex[c]
  /\ ~ex[c][s].hasFinished /\ ~ex[c][s].errorEvent
  /\ ex' = [ex EXCEPT ![c][s] = onError(@)]
  /\ UNCHANGED <<clock, lastPoll, lastResult, calls, lastDone>>
  /\ UNCHANGED <<construction, encoder>>

\* ------------------------------------------------------------------ getTime
Truthy(opt) == opt # <<>> /\ opt[1] # 0

\* variant: the window taken in milliseconds instead of seconds
CacheHitMillis(force, i, now) ==
  /\ ~force
  /\ Truthy(lastPoll)
  /\ now - lastPoll[1] < Pow2(Options(i).ntpDefaults.minPoll)

\* variant: force is not looked at
CacheHitAnyForce(force, i, now) ==
  /\ Truthy(lastPoll)
  /\ now - lastPoll[1] < Pow2(Options(i).ntpDefaults.minPoll) * 1000

\* variant: the cache is still served at the end of the window
CacheHitInclusive(force, i, now) ==
  /\ ~force
  /\ Truthy(lastPoll)
  /\ now - lastPoll[1] <= Pow2(Options(i).ntpDefaults.minPoll) * 1000

\* variant: the cache serves the first instance only
CacheHitFirstInstance(force, i, now) ==
  /\ i = 1
  /\ ~force
  /\ Truthy(lastPoll)
  /\ now - lastPoll[1] < Pow2(Options(i).ntpDefaults.minPoll) * 1000

\* the guard of the cache branch of getTime
CacheHit(force, i, now) ==
  /\ ~force
  /\ Truthy(lastPoll)
  /\ now - lastPoll[1] < Pow2(Options(i).ntpDefaults.minPoll) * 1000

\* variant: one round more
LoopAgainInclusive(len, retry, i) ==
  len < Options(i).sampleCount /\ retry <= Options(i).maxRetries

\* variant: stop at the first result
LoopAgainWhileEmpty(len, retry, i) ==
  len = 0 /\ retry < Options(i).maxRetries

\* the while condition of collectSamples
LoopAgain(len, retry, i) ==
  len < Options(i).sampleCount /\ retry < Options(i).maxRetries

\* the retry counter after a round that left len results
NextRetry(len, retry) == IF len = 0 THEN retry + 1 ELSE retry

\* history: is the synchronization completed last inside the window of i?
InWindow(i) ==
  /\ lastDone # <<>>
  /\ clock - lastDone[1].time < Pow2(Options(i).ntpDefaults.minPoll) * 1000

\* variant: now() takes its Date after the await
NowInstantLate(entry, now) == now

\* the instant now() adds the offset to: the Date taken at its entry
NowInstant(entry, now) == entry

\* what now() returns for the offset of the result it awaited
NowDate(entry, offset, now) ==
  IF entry = <<>> THEN <<>>
  ELSE <<setUTCMilliseconds(NowInstant(entry[1], now), offset)>>

\* variant: a call answered from the cache renews the time of the entry
CacheAfterHitRenewed(now) == [lastResult |-> lastResult, lastPoll |-> <<now>>]

\* the cache after the cache branch of getTime: the branch reads lastPoll
\* and lastResult and assigns to neither
CacheAfterHit(now) == [lastResult |-> lastResult, lastPoll |-> lastPoll]

\* getTime, called directly (entry = <<>>) or by now(), up to its first await
GetTimeCall(c, i, force, entry) ==
  /\ calls[c].pc = "idle"
  /\ LET hist == [IdleCall EXCEPT
                    !.inst = i, !.force = force, !.entry = entry,
                    !.expect = IF ~force /\ InWindow(i) THEN lastDone ELSE <<>>]
     IN  IF CacheHit(force, i, clock)
         THEN /\ calls' = [calls EXCEPT ![c] =
                   IF lastResult = <<>>
                   THEN [hist EXCEPT !.pc = "TypeError"]
                   ELSE [hist EXCEPT
                           !.pc = "resolved", !.cached = TRUE,
                           !.result = lastResult, !.at = <<clock>>,
                           !.date = <<setUTCMilliseconds(clock,
                                                         lastResult[1].offset)>>,
                           !.nowDate = NowDate(entry, lastResult[1].offset,
                                               clock)]]
              /\ lastResult' = CacheAfterHit(clock).lastResult
              /\ lastPoll' = CacheAfterHit(clock).lastPoll
              /\ UNCHANGED ex
         ELSE /\ calls' = [calls EXCEPT ![c] =
                   [hist EXCEPT !.pc = "collecting", !.rounds = 1]]
              /\ ex' = [ex EXCEPT ![c] = NewRound(i)]
              /\ UNCHANGED <<lastPoll, lastResult>>
  /\ UNCHANGED <<clock, lastDone>>
  /\ UNCHANGED <<construction, encoder>>

GetTime(c, i, force) == GetTimeCall(c, i, force, <<>>)

\* now(force): a Date is taken, then getTime(force) is called
Now(c, i, force) == GetTimeCall(c, i, force, <<clock>>)

\* the replies of the first n exchanges that passed acceptResponse
RECURSIVE Accepted(_, _)
Accepted(exchanges, n) ==
  IF n = 0 THEN <<>>
  ELSE IF exchanges[n].outcome = "ok"
    THEN Accepted(exchanges, n - 1) \o exchanges[n].data
    ELSE Accepted(exchanges, n - 1)

\* variant: Promise.all without the catch on each promise, one failure
\* loses the round
RoundResultsAllOrNothing(c) ==
  IF \A s \in DOMAIN ex[c] : ex[c][s].outcome = "ok"
  THEN calls[c].ntpResults \o Accepted(ex[c], Len(ex[c]))
  ELSE <<>>

\* the results of a finished round, in server order, errors filtered out
RoundResults(c) ==
  calls[c].ntpResults \o Accepted(ex[c], Len(ex[c]))

\* variant: the first promise to settle ends the round
RoundSettledAny(c) == \E s \in DOMAIN ex[c] : ex[c][s].outcome # "pending"

\* Promise.all over the promises of the round, each with its catch: it
\* resolves when all of them have settled
RoundSettled(c) == \A s \in DOMAIN ex[c] : ex[c][s].outcome # "pending"

\* variant: the time of an entry is set once and kept
CacheEntryFirstPoll(r, now) ==
  [lastResult |-> <<r>>, lastPoll |-> IF lastPoll = <<>> THEN <<now>> ELSE lastPoll]

\* variant: the time is assigned and the result is left for later
CacheEntryPollOnly(r, now) == [lastResult |-> lastResult, lastPoll |-> <<now>>]

\* the assignments to lastResult and lastPoll at the end of getTime: no
\* await stands between them
CacheEntry(r, now) == [lastResult |-> <<r>>, lastPoll |-> <<now>>]

\* variant: a failed synchronization empties the cache
CacheAfterThrowEmpty == [lastResult |-> <<>>, lastPoll |-> <<>>]

\* the cache when collectSamples throws: the exception leaves getTime at
\* its await, before the assignments to lastResult and lastPoll
CacheAfterThrow == [lastResult |-> lastResult, lastPoll |-> lastPoll]

\* collectSamples resumes after await Promise.all, getTime after it, and
\* now() after getTime
RoundEnd(c) ==
  /\ Collecting(c)
  /\ RoundSettled(c)
  /\ \E ntpResults \in {RoundResults(c)} :
     \E retry \in {NextRetry(Len(ntpResults), calls[c].retry)} :
       IF LoopAgain(Len(ntpResults), retry, calls[c].inst)
       THEN /\ calls' = [calls EXCEPT ![c].ntpResults = ntpResults,
                                      ![c].retry = retry,
                                      ![c].rounds = Inc(@)]
            /\ ex' = [ex EXCEPT ![c] = NewRound(calls[c].inst)]
            /\ UNCHANGED <<lastPoll, lastResult, lastDone>>
       ELSE IF Len(ntpResults) = 0
       THEN /\ calls' = [calls EXCEPT ![c].pc = "rejected", ![c].retry = retry]
            /\ ex' = [ex EXCEPT ![c] = <<>>]
            /\ lastResult' = CacheAfterThrow.lastResult
            /\ lastPoll' = CacheAfterThrow.lastPoll
            /\ UNCHANGED lastDone
       ELSE \E samples \in {SelectSamples(ntpResults, calls[c].inst)} :
            \E r \in {Aggregate(samples)} :
              /\ lastResult' = CacheEntry(r, clock).lastResult
              /\ lastPoll' = CacheEntry(r, clock).lastPoll
              /\ lastDone' = <<[offset |-> r.offset, precision |-> r.precision,
                                time |-> clock]>>
              /\ calls' = [calls EXCEPT ![c].pc = "resolved",
                                        ![c].retry = retry,
                                        ![c].ntpResults = ntpResults,
                                        ![c].samples = samples,
                                        ![c].result = <<r>>,
                                        ![c].at = <<clock>>,
                                        ![c].date =
                                          <<setUTCMilliseconds(clock, r.offset)>>,
                                        ![c].nowDate =
                                          NowDate(calls[c].entry, r.offset, clock)]
              /\ ex' = [ex EXCEPT ![c] = <<>>]
  /\ UNCHANGED clock
  /\ UNCHANGED <<construction, encoder>>

\* the caller has taken the result: the slot is free for the next call
Return(c) ==
  /\ calls[c].pc \in {"resolved", "rejected", "TypeError"}
  /\ calls' = [calls EXCEPT ![c] = IdleCall]
  /\ UNCHANGED <<clock, lastPoll, lastResult, ex, lastDone>>
  /\ UNCHANGED <<construction, encoder>>

Tick ==
  /\ clock < TickMs * MaxTicks
  /\ clock' = clock + TickMs
  /\ UNCHANGED <<lastPoll, lastResult, calls, ex, lastDone>>
  /\ UNCHANGED <<construction, encoder>>

\* -------------------------------------------------------------- construction
\* new NtpTimeSync(options) with the objects of h: the object is added and
\* its number returned, unless the constructor throws
New(h, options) ==
  LET o == Constructor(options)
  IN  IF o.kind = "throw" THEN [h EXCEPT !.ret = <<>>, !.thrown = <<o>>]
      ELSE [h EXCEPT !.objects = Append(@, o), !.ret = <<Len(h.objects) + 1>>,
                     !.thrown = <<>>]

\* variant: every call makes a new instance
getInstanceFresh(h, options) ==
  LET n == New(h, options) IN [n EXCEPT !.singleton = n.ret]

\* NtpTimeSync.getInstance(options)
getInstance(h, options) ==
  IF h.singleton = <<>>
  THEN LET n == New(h, options) IN [n EXCEPT !.singleton = n.ret]
  ELSE [h EXCEPT !.ret = h.singleton, !.thrown = <<>>]

Heap == [singleton |-> singleton, objects |-> objects, ret |-> <<>>, thrown |-> <<>>]

Record(h, via, options) ==
  /\ singleton' = h.singleton
  /\ objects' = h.objects
  /\ returned' = Append(returned, [via |-> via, options |-> options,
                                   ret |-> h.ret, thrown |-> h.thrown])

GetInstance(options) ==
  /\ Len(returned) < MaxObjects
  /\ Record(getInstance(Heap, options), "getInstance", options)
  /\ UNCHANGED <<sync, encoder>>

Construct(options) ==
  /\ Len(returned) < MaxObjects
  /\ Record(New(Heap, options), "new", options)
  /\ UNCHANGED <<sync, encoder>>

NextConstruct ==
  \/ \E options \in OptionInputs : GetInstance(options)
  \/ \E options \in OptionInputs : Construct(options)

SpecConstruct == Init /\ [][NextConstruct]_vars

\* an event that reaches an exchange that has not finished yet
Prompt(c, s) == s \in DOMAIN ex[c] /\ ~ex[c][s].hasFinished

\* One caller: a call is issued when the previous one has returned.  Every
\* event of an exchange is delivered in every order, late ones included.
Next ==
  \/ Tick
  \/ \E i \in Instances, force \in BOOLEAN : GetTime(1, i, force)
  \/ \E i \in Instances, force \in BOOLEAN : Now(1, i, force)
  \/ \E s \in 1..2, failed \in BOOLEAN : SendCallback(1, s, failed)
  \/ \E s \in 1..2, pkt \in Packets : Message(1, s, pkt)
  \/ \E s \in 1..2 : Undecodable(1, s)
  \/ \E s \in 1..2 : Timeout(1, s)
  \/ \E s \in 1..2 : ChannelError(1, s)
  \/ RoundEnd(1)
  \/ Return(1)

Spec == Init /\ [][Next]_vars

\* One caller and the events of an exchange that the code handles to the
\* end, with one acceptable and one unacceptable reply.
NextEvents ==
  \/ Tick
  \/ \E i \in Instances, force \in BOOLEAN : GetTime(1, i, force)
  \/ \E s \in 1..2, failed \in BOOLEAN : SendCallback(1, s, failed)
  \/ \E s \in 1..2, pkt \in {PacketA, PacketU} : Message(1, s, pkt)
  \/ \E s \in 1..2 : Timeout(1, s)
  \/ \E s \in 1..2 : ChannelError(1, s)
  \/ RoundEnd(1)
  \/ Return(1)

\* What the event loop guarantees: an armed timer fires, the callback of a
\* send is called, and a continuation whose promises have all settled runs.
EventLoop ==
  /\ \A s \in 1..2 : WF_vars(Timeout(1, s))
  /\ \A s \in 1..2 : WF_vars(\E failed \in BOOLEAN : SendCallback(1, s, failed))
  /\ WF_vars(RoundEnd(1))

SpecFair == Init /\ [][NextEvents]_vars /\ EventLoop

\* The same, and datagrams that the decoder cannot decode.
NextDatagrams ==
  \/ NextEvents
  \/ \E s \in 1..2 : Undecodable(1, s)

SpecDatagrams == Init /\ [][NextDatagrams]_vars /\ EventLoop

\* Two callers whose calls overlap.  Every send succeeds, and an exchange
\* ends with an acceptable reply or with its timeout; nothing reaches an
\* exchange that has finished.
NextCallers ==
  \/ Tick
  \/ \E c \in Calls, i \in Instances, force \in BOOLEAN : GetTime(c, i, force)
  \/ \E c \in Calls, s \in 1..2 :
       Prompt(c, s) /\ SendCallback(c, s, FALSE)
  \/ \E c \in Calls, s \in 1..2, pkt \in {PacketA} :
       Prompt(c, s) /\ Message(c, s, pkt)
  \/ \E c \in Calls, s \in 1..2 : Prompt(c, s) /\ ex[c][s].listening /\ Timeout(c, s)
  \/ \E c \in Calls : RoundEnd(c)
  \/ \E c \in Calls : Return(c)

SpecCallers == Init /\ [][NextCallers]_vars

\* One caller on the instance with two servers and sampleCount 3.  A send
\* succeeds or fails, and an exchange ends with one of the checked replies
\* or with its timeout.  The calls are made within one millisecond.
NextRounds ==
  \/ \E force \in BOOLEAN : GetTime(1, ManyRounds, force)
  \/ \E s \in 1..2, failed \in BOOLEAN :
       Prompt(1, s) /\ SendCallback(1, s, failed)
  \/ \E s \in 1..2, pkt \in CheckedPackets :
       Prompt(1, s) /\ Message(1, s, pkt)
  \/ \E s \in 1..2 : Prompt(1, s) /\ Timeout(1, s)
  \/ RoundEnd(1)
  \/ Return(1)

SpecRounds == Init /\ [][NextRounds]_vars

\* Two callers whose calls overlap, forced or not, on either instance.
\* Every exchange ends with an acceptable reply, and the replies to the
\* two callers differ, so that rounds that complete at the same time
\* compute different results.
NextOverlap ==
  \/ Tick
  \/ \E c \in Calls, i \in Instances, force \in BOOLEAN : GetTime(c, i, force)
  \/ \E c \in Calls, s \in 1..2 :
       Prompt(c, s) /\ SendCallback(c, s, FALSE)
  \/ \E c \in Calls, s \in 1..2 :
       Prompt(c, s) /\ Message(c, s, IF c = 1 THEN PacketA ELSE PacketB)
  \/ \E c \in Calls : RoundEnd(c)
  \/ \E c \in Calls : Return(c)

SpecOverlap == Init /\ [][NextOverlap]_vars

\* One caller on the instance with one server; each reply comes from a
\* server with some clock difference over a path with equal delays.
NextSymmetric ==
  \/ Tick
  \/ \E force \in BOOLEAN : GetTime(1, 1, force)
  \/ Prompt(1, 1) /\ SendCallback(1, 1, FALSE)
  \/ \E theta \in Thetas, d \in Delays :
       Prompt(1, 1) /\ Message(1, 1, SymmetricPacket(theta, d, clock))
  \/ RoundEnd(1)
  \/ Return(1)

SpecSymmetric == Init /\ [][NextSymmetric]_vars

\* the arguments a caller may leave out or give
Optional(values) == {<<>>} \cup {<<v>> : v \in values}

CreatePacket(leapIndicator, ntpVersion, mode, ntpTimestamp) ==
  /\ packet = <<>>
  /\ packetArgs' = <<[leapIndicator |-> leapIndicator, ntpVersion |-> ntpVersion,
                       mode |-> mode, ntpTimestamp |-> ntpTimestamp]>>
  /\ packet' = createPacket(leapIndicator, ntpVersion, mode, ntpTimestamp, 1)
  /\ UNCHANGED <<sync, construction>>

\* client.send takes the packet
SendPacket ==
  /\ packet # <<>>
  /\ packetArgs' = <<>>
  /\ packet' = <<>>
  /\ UNCHANGED <<sync, construction>>

\* createPacket is called with each leap indicator, version and mode it
\* has bits for, and without them
NextPacket ==
  \/ \E leapIndicator \in Optional(0..3), ntpVersion \in Optional(0..7),
        mode \in Optional(0..7), ntpTimestamp \in TimestampDigits :
       CreatePacket(leapIndicator, ntpVersion, mode, ntpTimestamp)
  \/ SendPacket

SpecPacket == Init /\ [][NextPacket]_vars

\* Two callers whose calls overlap, within one millisecond.  A send
\* succeeds or fails, and every event of an exchange is delivered in every
\* order, late ones included.
NextChannels ==
  \/ \E c \in Calls, i \in Instances, force \in BOOLEAN : GetTime(c, i, force)
  \/ \E c \in Calls, s \in 1..2, failed \in BOOLEAN : SendCallback(c, s, failed)
  \/ \E c \in Calls, s \in 1..2, pkt \in {PacketA, PacketU} : Message(c, s, pkt)
  \/ \E c \in Calls, s \in 1..2 : Undecodable(c, s)
  \/ \E c \in Calls, s \in 1..2 : Timeout(c, s)
  \/ \E c \in Calls, s \in 1..2 : ChannelError(c, s)
  \/ \E c \in Calls : RoundEnd(c)
  \/ \E c \in Calls : Return(c)

SpecChannels == Init /\ [][NextChannels]_vars

\* =================================================================== claims
Settled(c) == calls[c].pc \in {"resolved", "rejected"}
MaxRetries(c) == Options(calls[c].inst).maxRetries
SampleCount(c) == Options(calls[c].inst).sampleCount
Exchanges == {<<c, s>> \in Calls \X (1..2) : s \in DOMAIN ex[c]}
Finished(e) == e.promise # "pending"

\* C1: a getTime(false) call issued less than 2^minPoll seconds after the
\* synchronization completed last starts no exchange and resolves with the
\* offset and precision of that synchronization.
C1_CacheServesWindow ==
  \A c \in Calls :
    (calls[c].pc # "idle" /\ calls[c].expect # <<>>) =>
      /\ calls[c].pc = "resolved"
      /\ calls[c].rounds = 0
      /\ ex[c] = <<>>
      /\ calls[c].result # <<>>
      /\ calls[c].result[1].offset = calls[c].expect[1].offset
      /\ calls[c].result[1].precision = calls[c].expect[1].precision

\* a non-forced call answered inside the window, one tick after the
\* synchronization completed
C1_Witness ==
  \E c \in Calls :
    /\ calls[c].pc = "resolved" /\ calls[c].cached /\ ~calls[c].force
    /\ calls[c].expect # <<>> /\ calls[c].expect[1].time < clock
    /\ calls[c].rounds = 0

\* C2: getTime(true) starts a round whatever the cache holds, and when it
\* resolves the cache holds the offset, precision and time of that round.
C2_ForceSynchronizes ==
  [][\A c \in Calls :
       /\ (calls[c].pc = "idle" /\ calls'[c].pc # "idle" /\ calls'[c].force) =>
            /\ calls'[c].pc = "collecting"
            /\ calls'[c].rounds = 1
            /\ ex'[c] = NewRound(calls'[c].inst)
       /\ (Collecting(c) /\ calls[c].force /\ calls'[c].pc = "resolved") =>
            /\ ~calls'[c].cached
            /\ calls'[c].result = <<Aggregate(calls'[c].samples)>>
            /\ lastResult' = calls'[c].result
            /\ lastPoll' = <<clock>>
            /\ calls'[c].samples =
                 SelectSamples(RoundResults(c), calls[c].inst)]_vars

\* a forced call in flight that was issued in the millisecond the cache
\* entry was computed
C2_Witness ==
  /\ Collecting(1) /\ calls[1].force
  /\ lastPoll = <<clock>> /\ lastResult # <<>>

\* C3: when no reply of any round is accepted and maxRetries >= 1, getTime
\* rejects after exactly maxRetries rounds and reports maxRetries retries.
C3_RejectsAfterMaxRetries ==
  \A c \in Calls :
    MaxRetries(c) >= 1 =>
      /\ (Collecting(c) /\ calls[c].accepted = 0) =>
           /\ calls[c].rounds = calls[c].retry + 1
           /\ calls[c].rounds <= MaxRetries(c)
      /\ (Settled(c) /\ ~calls[c].cached /\ calls[c].accepted = 0) =>
           calls[c].pc = "rejected"
      /\ calls[c].pc = "rejected" =>
           /\ calls[c].accepted = 0
           /\ calls[c].rounds = MaxRetries(c)
           /\ calls[c].retry = MaxRetries(c)

\* a call of the instance with maxRetries = 2 rejected after two rounds
C3_Witness ==
  /\ calls[1].pc = "rejected" /\ calls[1].inst = 1
  /\ calls[1].rounds = 2 /\ calls[1].retry = 2

\* C4 as claimed: a round is running only while no reply has been accepted
\* in the rounds before it.
C4_StopsAtFirstSample ==
  \A c \in Calls : Collecting(c) => calls[c].ntpResults = <<>>

\* C4, amended: a round is running only while fewer than sampleCount replies
\* have been accepted in the rounds before it and fewer than maxRetries
\* rounds have ended with nothing accepted; with maxRetries >= 1 the loop
\* ends with sampleCount accepted replies or more, or with none.
C4_StopsAtSampleCount ==
  \A c \in Calls :
    /\ Collecting(c) =>
         /\ Len(calls[c].ntpResults) < SampleCount(c)
         /\ calls[c].rounds > 1 => calls[c].retry < MaxRetries(c)
    /\ (calls[c].pc = "resolved" /\ ~calls[c].cached /\ MaxRetries(c) >= 1) =>
         calls[c].accepted >= SampleCount(c)
    /\ calls[c].pc = "rejected" =>
         calls[c].accepted = 0 /\ calls[c].retry >= MaxRetries(c)

\* a round running after a round that left 1 of 2 requested samples
C4_Witness ==
  /\ Collecting(1) /\ calls[1].rounds >= 2
  /\ Len(calls[1].ntpResults) = 1 /\ SampleCount(1) = 2

\* C5 as claimed: every getTime call that starts collecting resolves or
\* rejects.
C5_GetTimeSettles == Collecting(1) ~> Settled(1)

\* C6 as claimed: non-forced calls never have rounds in flight at the same
\* time.
C6_OneRoundInFlight ==
  \A c, d \in Calls :
    (c # d /\ Collecting(c) /\ Collecting(d)) => calls[c].force \/ calls[d].force

\* C7: getTime rejects only when no reply of the call was accepted; with an
\* accepted reply it resolves, with the aggregate of samples that all come
\* from replies acceptResponse accepted.
C7_OnlyExhaustionRejects ==
  \A c \in Calls :
    /\ calls[c].pc = "rejected" => calls[c].accepted = 0
    /\ (Settled(c) /\ ~calls[c].cached /\ calls[c].accepted > 0) =>
         /\ calls[c].pc = "resolved"
         /\ calls[c].samples # <<>>
         /\ calls[c].result = <<Aggregate(calls[c].samples)>>
         /\ \A k \in 1..Len(calls[c].samples) :
              LET data == calls[c].samples[k].data
              IN  acceptResponse(data, calls[c].inst,
                                 data.destinationTimestamp) = "ok"
    /\ (Collecting(c) /\ calls[c].accepted > 0) =>
         \/ calls[c].ntpResults # <<>>
         \/ \E s \in DOMAIN ex[c] : ex[c][s].outcome = "ok"

\* a call resolved after a round in which nothing was accepted
C7_Witness ==
  /\ calls[1].pc = "resolved" /\ ~calls[1].cached
  /\ calls[1].retry >= 1 /\ calls[1].accepted > 0

C10_ErrorEventRejects ==
  \A x \in Exchanges :
    LET e == ex[x[1]][x[2]]
    IN  e.errorEvent => (e.promise = "rejected" /\ e.error = "Transport error")

\* the reply reports an unsynchronized clock or a stratum out of range
Unsynchronized(p, i) ==
  p.leapIndicator = 3 \/ p.stratum >= Options(i).ntpDefaults.maxStratum

\* C11 as claimed: every reply with leap indicator 3 or a stratum of
\* maxStratum or more is rejected with a Stratum error.
C11_StratumError ==
  \A x \in Exchanges :
    LET e == ex[x[1]][x[2]]
    IN  (e.data # <<>> /\ Unsynchronized(e.data[1].packet, calls[x[1]].inst)) =>
          e.outcome = "Stratum error"

\* C11, amended: a reply with leap indicator 3 or a stratum of maxStratum or
\* more is rejected, with a Stratum error when its version is not above the
\* configured one and with the Format error of the version test otherwise;
\* no such reply is among the accepted replies or the samples of a call, and
\* the result and the cache entry of a call are computed from its samples.
C11_StratumRejected ==
  /\ \A x \in Exchanges :
       LET e == ex[x[1]][x[2]]
           i == calls[x[1]].inst
       IN  (e.data # <<>> /\ Unsynchronized(e.data[1].packet, i)) =>
             e.outcome =
               IF e.data[1].packet.version > Options(i).ntpDefaults.version
               THEN "Format error: version" ELSE "Stratum error"
  /\ \A c \in Calls :
       /\ \A k \in 1..Len(calls[c].ntpResults) :
            ~Unsynchronized(calls[c].ntpResults[k].packet, calls[c].inst)
       /\ \A k \in 1..Len(calls[c].samples) :
            ~Unsynchronized(calls[c].samples[k].data.packet, calls[c].inst)
       /\ (calls[c].pc = "resolved" /\ ~calls[c].cached) =>
            /\ calls[c].result = <<Aggregate(calls[c].samples)>>
            /\ lastResult = calls[c].result

\* a reply with stratum 16 and leap indicator 0 was rejected with a Stratum
\* error by an instance with maxStratum = 16
C11_Witness ==
  \E x \in Exchanges :
    LET e == ex[x[1]][x[2]]
    IN  /\ e.data # <<>> /\ e.data[1].packet.stratum = 16
        /\ e.data[1].packet.leapIndicator = 0
        /\ e.outcome = "Stratum error"

\* all accepted samples of a call, in the order of acceptance
AllSamples(c) == Samples(calls[c].ntpResults, calls[c].inst)
Min(a, b) == IF a < b THEN a ELSE b

\* C12: the samples collectSamples returns are min(sampleCount, accepted)
\* of the accepted samples of the call, each taken once, in ascending order
\* of delay, and no accepted sample that was left out has a smaller delay
\* than a returned one.
C12_SortedPrefix ==
  \A c \in Calls :
    (calls[c].pc = "resolved" /\ ~calls[c].cached) =>
      LET all == AllSamples(c)
          got == calls[c].samples
      IN  /\ Len(all) = calls[c].accepted
          /\ Len(got) = Min(SampleCount(c), Len(all))
          /\ \A k, l \in 1..Len(got) :
               k < l => ~RLess(got[l].delay, got[k].delay)
          /\ \E idx \in [1..Len(got) -> 1..Len(all)] :
               /\ \A k, l \in 1..Len(got) : k # l => idx[k] # idx[l]
               /\ \A k \in 1..Len(got) : got[k] = all[idx[k]]
               /\ \A m \in 1..Len(all) :
                    (\A k \in 1..Len(got) : idx[k] # m) =>
                      \A k \in 1..Len(got) : ~RLess(all[m].delay, got[k].delay)

\* two accepted replies and sampleCount = 1: the reply accepted second has
\* the smaller delay and is the one returned
C12_Witness ==
  /\ calls[1].pc = "resolved" /\ ~calls[1].cached /\ SampleCount(1) = 1
  /\ Len(calls[1].ntpResults) = 2 /\ Len(calls[1].samples) = 1
  /\ calls[1].samples[1].data = calls[1].ntpResults[2]
  /\ RLess(calls[1].samples[1].delay, AllSamples(1)[1].delay)

\* 2^precision of the configuration of call c
Floor(c) == MathPow2(Options(calls[c].inst).ntpDefaults.precision)
RawDelay(data) ==
  data.destinationTimestamp - data.packet.originTimestamp
    - (data.packet.receiveTimestamp - data.packet.transmitTimestamp)

\* C13: the delay of every sample computed from an accepted reply is at
\* least 2^precision of the configuration, hence above zero, and the
\* precision of every result (carried by its square) is not negative.
C13_DelayFloor ==
  \A c \in Calls :
    /\ (calls[c].pc = "resolved" /\ ~calls[c].cached) =>
         \A k \in 1..Len(AllSamples(c)) :
           /\ ~RLess(AllSamples(c)[k].delay, Floor(c))
           /\ RLess(RInt(0), AllSamples(c)[k].delay)
    /\ \A k \in 1..Len(calls[c].samples) :
         /\ ~RLess(calls[c].samples[k].delay, Floor(c))
         /\ RLess(RInt(0), calls[c].samples[k].delay)
    /\ calls[c].result # <<>> =>
         /\ ~RLess(calls[c].result[1].precision, RInt(0))
         /\ calls[c].result[1].precision[2] > 0

\* a sample of a reply whose round trip comes out negative: its delay is
\* 2^precision
C13_Witness ==
  /\ calls[1].pc = "resolved" /\ ~calls[1].cached
  /\ \E k \in 1..Len(calls[1].samples) :
       /\ RawDelay(calls[1].samples[k].data) < 0
       /\ calls[1].samples[k].delay = Floor(1)

\* |a| < 1
WithinOne(a) == RLess(a, RInt(1)) /\ RLess(RInt(-1), a)

\* C14: now() returns the Date taken at its entry plus the offset of the
\* result it awaited, and the now field of that result is the Date taken
\* when the result was produced plus the same offset (a Date holds whole
\* milliseconds: each is within one millisecond of the sum); as the clock
\* does not go back, what now() returns is not later than that now field.
C14_NowFromEntry ==
  \A c \in Calls :
    (calls[c].pc = "resolved" /\ calls[c].entry # <<>>) =>
      LET offset == calls[c].result[1].offset
      IN  /\ calls[c].nowDate # <<>> /\ calls[c].date # <<>>
          /\ WithinOne(RSub(RInt(calls[c].nowDate[1]),
                            RAdd(RInt(calls[c].entry[1]), offset)))
          /\ WithinOne(RSub(RInt(calls[c].date[1]),
                            RAdd(RInt(calls[c].at[1]), offset)))
          /\ calls[c].entry[1] <= calls[c].at[1]
          /\ calls[c].nowDate[1] <= calls[c].date[1]

\* a now() call resolved after the clock advanced during its round, with an
\* offset that is not a whole number
C14_Witness ==
  /\ calls[1].pc = "resolved" /\ calls[1].entry # <<>> /\ ~calls[1].cached
  /\ calls[1].entry[1] < calls[1].at[1]
  /\ calls[1].result[1].offset[2] = 2
  /\ calls[1].nowDate[1] < calls[1].date[1]

\* the calls of getInstance so far, by their position in the history
GetInstanceCalls == {k \in 1..Len(returned) : returned[k].via = "getInstance"}
FirstGetInstance == CHOOSE k \in GetInstanceCalls : \A l \in GetInstanceCalls : k <= l

\* C15: every getInstance call returns the same object, whose options are
\* those resolved from the argument of the first getInstance call, and no
\* object returned by new is that object.
C15_Singleton ==
  /\ \A k \in GetInstanceCalls :
       /\ returned[k].ret # <<>>
       /\ returned[k].ret = returned[FirstGetInstance].ret
       /\ returned[k].ret = singleton
       /\ objects[returned[k].ret[1]] =
            Constructor(returned[FirstGetInstance].options)
  /\ \A k \in 1..Len(returned) :
       returned[k].via = "new" =>
         /\ returned[k].ret # singleton
         /\ \A l \in GetInstanceCalls : returned[k].ret # returned[l].ret

\* getInstance with overrides, a construction, then getInstance with other
\* options: the second getInstance returns the object of the first, which
\* has sampleCount 2
C15_Witness ==
  /\ Len(returned) = 3
  /\ returned[1].via = "getInstance" /\ returned[1].options = WithOverrides
  /\ returned[2].via = "new" /\ returned[2].ret = <<2>>
  /\ returned[3].via = "getInstance" /\ returned[3].options = WithServers
  /\ returned[3].ret = <<1>>
  /\ objects[1].v.sampleCount = NumV(2)

\* the calls that ran the constructor: every new, and the first getInstance
Constructions ==
  {k \in 1..Len(returned) :
     returned[k].via = "new" \/ k = FirstGetInstance}

DocumentedKeys == DOMAIN NtpTimeSyncDefaultOptions.v
DocumentedNtpKeys == DOMAIN NtpTimeSyncDefaultOptions.v.ntpDefaults.v

\* options has a key, at top level or inside ntpDefaults, that is not a
\* documented one
UnknownKey(options) ==
  \/ \E key \in Entries(options) : key \notin DocumentedKeys
  \/ /\ In("ntpDefaults", options)
     /\ \E key \in Entries(options.v.ntpDefaults) : key \notin DocumentedNtpKeys

\* C16 as claimed: a construction with an undocumented option key throws
\* an Invalid option error and makes no object.
C16_UnknownKeyThrows ==
  \A k \in Constructions :
    UnknownKey(returned[k].options) =>
      /\ returned[k].ret = <<>>
      /\ returned[k].thrown # <<>>
      /\ returned[k].thrown[1].v[1] = "Invalid option"

\* the value the options of a construction are claimed to hold for a key
\* inside ntpDefaults, and for a key at top level
MergedNtp(options, key) ==
  IF In("ntpDefaults", options) /\ In(key, options.v.ntpDefaults)
  THEN options.v.ntpDefaults.v[key]
  ELSE NtpTimeSyncDefaultOptions.v.ntpDefaults.v[key]
Merged(options, key) ==
  IF In(key, options) THEN options.v[key] ELSE NtpTimeSyncDefaultOptions.v[key]

\* C17 as claimed: the options of a constructed object hold the value the
\* caller gave for a documented key, at top level or inside ntpDefaults,
\* and the default for every other key; the defaults passed as options
\* resolve as no options do.
C17_DeepMerge ==
  /\ \A k \in Constructions :
       returned[k].ret # <<>> =>
         LET o == objects[returned[k].ret[1]]
         IN  /\ \A key \in DocumentedKeys \ {"servers", "ntpDefaults"} :
                  o.v[key] = Merged(returned[k].options, key)
             /\ \A key \in DocumentedNtpKeys :
                  o.v.ntpDefaults.v[key] = MergedNtp(returned[k].options, key)
  /\ \A k, l \in Constructions :
       (/\ returned[k].options = NtpTimeSyncDefaultOptions
        /\ returned[l].options = NoOptions
        /\ returned[k].ret # <<>> /\ returned[l].ret # <<>>) =>
         objects[returned[k].ret[1]] = objects[returned[l].ret[1]]

\* the server strings a construction reads
ServerConfig(options) == Merged(options, "servers").v

\* C18: the servers of a constructed object are one endpoint for each
\* configured string, in the same position: a string without ":" gives
\* itself as host and the resolved ntpDefaults.port; host, ":" and the
\* numeral of a port number give that host and that number.
C18_Endpoints ==
  \A k \in Constructions :
    returned[k].ret # <<>> =>
      LET o == objects[returned[k].ret[1]]
          config == ServerConfig(returned[k].options)
      IN  /\ Len(o.v.servers.v) = Len(config)
          /\ \A n \in 1..Len(config) :
               LET chars == config[n].v
                   colon == IndexOfColon(chars, 1)
                   port == SubSeq(chars, colon + 1, Len(chars))
                   endpoint == o.v.servers.v[n].v
               IN  /\ colon = 0 =>
                        /\ endpoint.host = StrV(chars)
                        /\ endpoint.port = o.v.ntpDefaults.v.port
                        /\ endpoint.port = MergedNtp(returned[k].options, "port")
                   /\ (/\ colon > 0 /\ port # <<>>
                        /\ \A j \in 1..Len(port) : port[j] \in Digits
                        /\ Decimal(port) \in 1..65535) =>
                        /\ endpoint.host = StrV(SubSeq(chars, 1, colon - 1))
                        /\ endpoint.port = NumV(Decimal(port))

\* "0.pool.ntp.org" resolved to port 123 and "0.pool.ntp.org:54321" to
\* port 54321, in this order
C18_Witness ==
  \E n \in 1..Len(objects) :
    /\ Len(objects[n].v.servers.v) = 2
    /\ objects[n].v.servers.v[1] =
         ObjV([host |-> PoolServer("0"), port |-> NumV(123)])
    /\ objects[n].v.servers.v[2] =
         ObjV([host |-> PoolServer("0"), port |-> NumV(54321)])

\* C19 as claimed: every started exchange finishes, whatever is delivered
\* to it.
C19_ExchangeFinishes ==
  \A s \in 1..2 :
    (s \in DOMAIN ex[1] /\ ~Finished(ex[1][s])) ~>
      (s \in DOMAIN ex[1] => Finished(ex[1][s]))

\* the step ends the round of call c: the call settles or a new round starts
EndsRound(c) ==
  /\ Collecting(c)
  /\ \/ calls'[c].pc # "collecting"
     \/ ex'[c] # ex[c] /\ ex'[c] = NewRound(calls[c].inst)

\* C20: a round ends only when each of its exchanges has finished, and the
\* reply of every exchange that succeeded in it, before or after the
\* failure of a sibling, is among the accepted replies the round leaves.
C20_RoundWaitsForAll ==
  [][\A c \in Calls :
       EndsRound(c) =>
         /\ \A s \in DOMAIN ex[c] : Finished(ex[c][s])
         /\ \A s \in DOMAIN ex[c] :
              ex[c][s].outcome = "ok" =>
                /\ calls'[c].pc # "rejected"
                /\ \E k \in 1..Len(calls'[c].ntpResults) :
                     calls'[c].ntpResults[k] = ex[c][s].data[1]]_vars

\* a round of two exchanges still running after one of them has failed
C20_Witness ==
  /\ Collecting(1) /\ Len(ex[1]) = 2
  /\ ex[1][1].promise = "rejected"
  /\ ex[1][2].promise = "pending" /\ ex[1][2].listening

\* the step starts a round of call c: an exchange appears that has just
\* been started
StartsRound(c) ==
  \E s \in DOMAIN ex'[c] :
    /\ ex'[c][s] = NewExchange
    /\ s \in DOMAIN ex[c] => ex[c][s] # NewExchange

\* C21: a round of a call starts only when each exchange of the round
\* before it has finished, and it starts one exchange for each configured
\* server, the servers whose exchange succeeded before included; a call
\* that collects has the exchanges of one round, one for each server.
C21_SequentialFullRounds ==
  [][\A c \in Calls :
       /\ StartsRound(c) =>
            /\ \A s \in DOMAIN ex[c] : Finished(ex[c][s])
            /\ DOMAIN ex'[c] = Servers(calls'[c].inst)
            /\ \A s \in DOMAIN ex'[c] : ex'[c][s] = NewExchange
       /\ calls'[c].pc = "collecting" =>
            DOMAIN ex'[c] = Servers(calls'[c].inst)]_vars

\* the second round of a call with two servers, after a round in which the
\* first server's reply was accepted and the second server's exchange
\* failed: both servers are asked again
C21_Witness ==
  /\ Collecting(1) /\ calls[1].inst = ManyRounds /\ calls[1].rounds = 2
  /\ Len(calls[1].ntpResults) = 1
  /\ Len(ex[1]) = 2 /\ ex[1][1].sendCallback = "done" /\ ex[1][2].listening

\* the four checks, each on its own; the distances are in milliseconds
VersionOk(data, i) == data.packet.version <= Options(i).ntpDefaults.version
StratumOk(data, i) ==
  /\ data.packet.leapIndicator # 3
  /\ data.packet.stratum < Options(i).ntpDefaults.maxStratum
DistanceOk(data, i) ==
  data.packet.rootDelay + 2 * data.packet.rootDispersion
    < 2000 * Options(i).ntpDefaults.maxDispersion
OriginOk(data) == data.packet.originTimestamp <= data.destinationTimestamp
PassesChecks(data, i) ==
  VersionOk(data, i) /\ StratumOk(data, i) /\ DistanceOk(data, i) /\ OriginOk(data)

\* the exchanges of the round of call c whose reply passes the checks
Passing(c) ==
  {s \in DOMAIN ex[c] :
     ex[c][s].data # <<>> /\ PassesChecks(ex[c][s].data[1], calls[c].inst)}

\* C22: each accepted reply and the reply of each sample passes the four
\* checks with the local clock of its receipt; a reply that fails one of
\* them ends its exchange with an error, as a timeout does, and leaves the
\* other exchanges of the round as they are; the round adds to the
\* accepted replies one reply for each exchange whose reply passes.
C22_FourChecks ==
  [][\A c \in Calls :
       LET i == calls'[c].inst IN
       /\ \A k \in 1..Len(calls'[c].ntpResults) :
            PassesChecks(calls'[c].ntpResults[k], i)
       /\ \A k \in 1..Len(calls'[c].samples) :
            PassesChecks(calls'[c].samples[k].data, i)
       /\ \A s \in DOMAIN ex'[c] :
            ex'[c][s].data # <<>> =>
              /\ ex'[c][s].outcome # "pending"
              /\ ex'[c][s].outcome = "ok" <=> PassesChecks(ex'[c][s].data[1], i)
              /\ \A t \in DOMAIN ex[c] \ {s} :
                   ex[c][s].data = <<>> /\ s \in DOMAIN ex[c]
                     => ex'[c][t] = ex[c][t]
       /\ EndsRound(c) /\ calls'[c].pc # "rejected" =>
            Len(calls'[c].ntpResults)
              = Len(calls[c].ntpResults) + Cardinality(Passing(c))
       /\ EndsRound(c) /\ calls'[c].pc = "rejected" =>
            Passing(c) = {} /\ calls[c].ntpResults = <<>>]_vars

\* a second round, after a round that left one accepted reply, in which the
\* reply of the first server has failed the distance check while the
\* exchange with the second server goes on
C22_Witness ==
  /\ Collecting(1) /\ calls[1].rounds = 2
  /\ Len(calls[1].ntpResults) = 1 /\ calls[1].ntpResults[1].packet = PacketO
  /\ Len(ex[1]) = 2
  /\ ex[1][1].data # <<>> /\ ex[1][1].outcome = "Distance error"
  /\ ex[1][2].listening /\ ~ex[1][2].hasFinished

\* history: no synchronization has completed, or the one completed last
\* is 2^minPoll seconds old or older for instance i
NoFreshEntry(i) == ~InWindow(i)

\* C23: a getTime(false) call issued when no cache entry exists, or when
\* the entry is 2^minPoll seconds old or older, starts a round and takes
\* nothing from the cache; when it resolves, its result is the aggregate
\* of the samples of the replies it collected, and the cache holds that
\* result with the time of its computation.
C23_StaleCacheSynchronizes ==
  [][\A c \in Calls :
       /\ ( /\ calls[c].pc = "idle" /\ calls'[c].pc # "idle"
            /\ ~calls'[c].force /\ NoFreshEntry(calls'[c].inst) ) =>
            /\ calls'[c].pc = "collecting"
            /\ ~calls'[c].cached /\ calls'[c].result = <<>>
            /\ calls'[c].rounds = 1
            /\ ex'[c] = NewRound(calls'[c].inst)
       /\ (Collecting(c) /\ ~calls[c].force /\ calls'[c].pc = "resolved") =>
            /\ ~calls'[c].cached
            /\ calls'[c].samples =
                 SelectSamples(RoundResults(c), calls[c].inst)
            /\ calls'[c].result = <<Aggregate(calls'[c].samples)>>
            /\ lastResult' = calls'[c].result
            /\ lastPoll' = <<clock>>]_vars

\* a getTime(false) call of the instance with a window of one second that
\* has just started its round, one second or more after the
\* synchronization completed last
C23_Witness ==
  /\ Collecting(1) /\ ~calls[1].force /\ calls[1].inst = 1
  /\ calls[1].rounds = 1 /\ ex[1] = NewRound(1)
  /\ lastDone # <<>> /\ lastResult # <<>>
  /\ clock - lastDone[1].time >= Pow2(Options(1).ntpDefaults.minPoll) * 1000

\* call b was issued without force on another instance than that of call
\* a, inside its own window, when the synchronization completed last was
\* the one call a had computed
ServedFrom(a, b) ==
  /\ a # b /\ calls[a].inst # calls[b].inst
  /\ calls[a].pc = "resolved" /\ ~calls[a].cached
  /\ calls[b].pc # "idle" /\ ~calls[b].force
  /\ calls[b].expect =
       <<[offset |-> calls[a].result[1].offset,
          precision |-> calls[a].result[1].precision,
          time |-> calls[a].at[1]]>>

\* C24: a getTime(false) call on instance B, issued inside the window of B
\* when the synchronization completed last is one that another instance A
\* computed, starts no exchange and resolves with the offset and precision
\* A computed.
C24_CacheSharedByInstances ==
  \A a, b \in Calls :
    ServedFrom(a, b) =>
      /\ calls[b].pc = "resolved" /\ calls[b].cached
      /\ calls[b].rounds = 0 /\ ex[b] = <<>>
      /\ calls[b].result[1].offset = calls[a].result[1].offset
      /\ calls[b].result[1].precision = calls[a].result[1].precision

\* the instance with two servers and a window of two seconds answers from
\* what the instance with one server computed a second or more before
C24_Witness ==
  \E a, b \in Calls :
    /\ ServedFrom(a, b) /\ calls[a].inst = 1 /\ calls[b].inst = 2
    /\ calls[b].pc = "resolved" /\ calls[b].at[1] > calls[a].at[1]

\* the step completes a synchronization of call c
Completes(c) == Collecting(c) /\ calls'[c].pc = "resolved"

\* C25: the cache entry changes only in a step that completes a
\* synchronization, and then its offset and precision are those the
\* completing call computed from its own samples and its time is the time
\* of that step; in every state the entry is the offset, precision and
\* time of the synchronization completed last, or empty when there is none.
C25_CacheEntryWhole ==
  [][/\ \A c \in Calls :
          Completes(c) =>
            /\ lastResult' = <<Aggregate(calls'[c].samples)>>
            /\ lastResult' = calls'[c].result
            /\ lastPoll' = <<clock>> /\ lastPoll' = calls'[c].at
     /\ (\A c \in Calls : ~Completes(c)) =>
          lastResult' = lastResult /\ lastPoll' = lastPoll
     /\ IF lastDone' = <<>> THEN lastResult' = <<>> /\ lastPoll' = <<>>
        ELSE /\ lastPoll' = <<lastDone'[1].time>>
             /\ lastResult' = <<[offset |-> lastDone'[1].offset,
                                  precision |-> lastDone'[1].precision]>>]_vars

\* two rounds in flight at the same time, one of them forced, while the
\* cache holds the entry of an earlier synchronization
C25_Witness ==
  /\ Collecting(1) /\ Collecting(2)
  /\ calls[1].force # calls[2].force
  /\ calls[1].inst # calls[2].inst
  /\ lastResult # <<>> /\ lastPoll # <<>> /\ lastPoll[1] < clock
  /\ \E s \in DOMAIN ex[1] : ex[1][s].outcome = "ok"
  /\ \E s \in DOMAIN ex[2] : ex[2][s].outcome = "ok"

\* the clock difference the four timestamps of a reply give
Theta(data) ==
  Rat((data.packet.receiveTimestamp - data.packet.originTimestamp)
      + (data.packet.transmitTimestamp - data.destinationTimestamp), 2)

\* C26 as claimed: the offset of each sample is
\* ((receive - origin) + (transmit - destination)) / 2, the difference
\* between the remote and the local clock when the two delays are equal.
C26_OffsetIsTheta ==
  \A c \in Calls :
    \A k \in 1..Len(calls[c].samples) :
      calls[c].samples[k].offset = Theta(calls[c].samples[k].data)

\* the sum of the offsets of the first k samples, and the sum of the
\* squares of their distances from m
RECURSIVE SumOffsets(_, _)
SumOffsets(samples, k) ==
  IF k = 0 THEN RInt(0)
  ELSE RAdd(SumOffsets(samples, k - 1), samples[k].offset)

RECURSIVE SumSquares(_, _, _)
SumSquares(samples, m, k) ==
  IF k = 0 THEN RInt(0)
  ELSE RAdd(SumSquares(samples, m, k - 1),
            RMul(RSub(samples[k].offset, m), RSub(samples[k].offset, m)))

\* C27: the offset getTime returns and caches is the arithmetic mean of the
\* offsets of the selected samples, and the square of the precision is the
\* mean of the squares of their deviations from that mean; with one
\* selected sample the offset is that of the sample and the precision is 0.
C27_MeanAndDeviation ==
  \A c \in Calls :
    (calls[c].pc = "resolved" /\ ~calls[c].cached) =>
      LET samples == calls[c].samples
          n == Len(samples)
          r == calls[c].result[1]
      IN  /\ n >= 1
          /\ lastResult = <<r>>
          /\ RMul(r.offset, RInt(n)) = SumOffsets(samples, n)
          /\ RMul(r.precision, RInt(n)) = SumSquares(samples, r.offset, n)
          /\ n = 1 => r.offset = samples[1].offset /\ r.precision = RInt(0)

\* a result from two samples with different offsets: the precision is
\* not 0
C27_Witness ==
  /\ calls[1].pc = "resolved" /\ ~calls[1].cached
  /\ Len(calls[1].samples) = 2
  /\ calls[1].samples[1].offset # calls[1].samples[2].offset
  /\ calls[1].result[1].precision # RInt(0)

\* byte k of the packet, counted from 0 as in the Buffer
Byte(k) == packet[k + 1]

\* C28: createPacket returns 48 bytes; for a leap indicator in 0..3, a
\* version in 1..7 and a mode in 0..7 byte 0 is
\* leapIndicator * 64 + version * 8 + mode, and 227 when none of them is
\* given; bytes 24..31 are equal to bytes 40..47; each other byte is 0.
C28_PacketLayout ==
  packetArgs # <<>> =>
    LET a == packetArgs[1] IN
    /\ Len(packet) = 48
    /\ \A k \in 0..47 : Byte(k) \in 0..255
    /\ (a.leapIndicator # <<>> /\ a.ntpVersion \notin {<<>>, <<0>>} /\ a.mode # <<>>) =>
         Byte(0) = a.leapIndicator[1] * 64 + a.ntpVersion[1] * 8 + a.mode[1]
    /\ (a.leapIndicator = <<>> /\ a.ntpVersion = <<>> /\ a.mode = <<>>) =>
         Byte(0) = 227
    /\ \A k \in 0..7 : Byte(24 + k) = Byte(40 + k)
    /\ \A k \in (1..23) \cup (32..39) : Byte(k) = 0

\* a packet for leap indicator 1, version 3 and mode 4, whose numerals are
\* shorter than their fields, with a timestamp of 64 digits
C28_Witness ==
  /\ packetArgs # <<>>
  /\ packetArgs[1].leapIndicator = <<1>> /\ packetArgs[1].ntpVersion = <<3>>
  /\ packetArgs[1].mode = <<4>> /\ Len(packetArgs[1].ntpTimestamp) = 64
  /\ Byte(0) = 92 /\ Byte(24) > 0 /\ Byte(31) > 0

\* the precisions a server may report in place of the one it reported
ReportedPrecisions == {-20, -18, -6}

\* the replies with their precision fields replaced by those of f
WithPrecisions(replies, f) ==
  [k \in 1..Len(replies) |-> [replies[k] EXCEPT !.packet.precision = f[k]]]

\* a reply without its precision field
Blind(data) == [data EXCEPT !.packet.precision = 0]

\* C29: whatever precision the servers report in the replies a call
\* accepted, the replies are accepted, the same samples are selected in
\* the same order with the same offsets and delays, and the offset and
\* precision of the result are the same.
C29_DispersionIgnored ==
  \A c \in Calls :
    (calls[c].pc = "resolved" /\ ~calls[c].cached) =>
      LET replies == calls[c].ntpResults
          i == calls[c].inst
          samples == calls[c].samples
      IN  \A f \in [1..Len(replies) -> ReportedPrecisions] :
            LET other == WithPrecisions(replies, f)
                selected == SelectSamples(other, i)
            IN  /\ \A k \in 1..Len(other) :
                     acceptResponse(other[k], i, other[k].destinationTimestamp)
                       = "ok"
                /\ Len(selected) = Len(samples)
                /\ \A k \in 1..Len(selected) :
                     /\ Blind(selected[k].data) = Blind(samples[k].data)
                     /\ selected[k].offset = samples[k].offset
                     /\ selected[k].delay = samples[k].delay
                /\ Aggregate(selected) = calls[c].result[1]

\* a result from two replies of which one sample was selected, the one
\* with the smaller delay and the larger dispersion
C29_Witness ==
  /\ calls[1].pc = "resolved" /\ ~calls[1].cached
  /\ Len(calls[1].ntpResults) = 2 /\ Len(calls[1].samples) = 1
  /\ \E k \in 1..2 :
       LET dropped == Sample(calls[1].ntpResults[k], calls[1].inst)
       IN  /\ RLess(calls[1].samples[1].delay, dropped.delay)
           /\ RLess(dropped.dispersion[1], calls[1].samples[1].dispersion[1])

\* the cache holds the synchronization completed last, or nothing when
\* there is none
CacheIsLastDone ==
  IF lastDone = <<>> THEN lastResult = <<>> /\ lastPoll = <<>>
  ELSE /\ lastPoll = <<lastDone[1].time>>
       /\ lastResult = <<[offset |-> lastDone[1].offset,
                           precision |-> lastDone[1].precision]>>

\* C30: the step in which a getTime call rejects leaves the cached offset,
\* precision and time as they were, and so does each step of its rounds
\* before; while a call is rejected the cache holds the synchronization
\* completed last, and a getTime(false) call issued then inside the window
\* resolves with that synchronization's offset and precision.
C30_RejectKeepsCache ==
  [][\A c \in Calls :
       /\ (Collecting(c) /\ calls'[c].pc # "resolved") =>
            lastResult' = lastResult /\ lastPoll' = lastPoll
       /\ calls'[c].pc = "rejected" => CacheIsLastDone'
       /\ ( /\ calls[c].pc = "idle" /\ calls'[c].pc # "idle" /\ ~calls'[c].force
            /\ InWindow(calls'[c].inst) ) =>
            /\ calls'[c].pc = "resolved" /\ calls'[c].cached
            /\ calls'[c].result[1].offset = lastDone[1].offset
            /\ calls'[c].result[1].precision = lastDone[1].precision]_vars

\* a forced call that has rejected after its rounds, inside the window of
\* an earlier synchronization whose entry is still in the cache
C30_Witness ==
  /\ calls[1].pc = "rejected" /\ calls[1].force
  /\ calls[1].rounds = MaxRetries(1)
  /\ lastDone # <<>> /\ InWindow(calls[1].inst)
  /\ lastResult # <<>> /\ lastPoll = <<lastDone[1].time>>

\* the step answers a call c from the cache
AnsweredFromCache(c) ==
  calls[c].pc = "idle" /\ calls'[c].pc = "resolved" /\ calls'[c].cached

\* C31: a step that answers a getTime call from the cache leaves the
\* cached offset, precision and time as they were and starts no exchange,
\* and the cached time changes only in a step that completes a
\* synchronization, to the time of that step.
C31_CacheHitChangesNothing ==
  [][/\ \A c \in Calls :
          AnsweredFromCache(c) =>
            /\ lastResult' = lastResult /\ lastPoll' = lastPoll
            /\ ex' = ex /\ clock' = clock
            /\ calls'[c].result = lastResult
     /\ lastPoll' # lastPoll =>
          /\ \E c \in Calls : Completes(c)
          /\ lastPoll' = <<clock>>]_vars

\* a call answered from the cache later than the entry was computed: the
\* entry still has the time of its computation
C31_Witness ==
  \E c \in Calls :
    /\ calls[c].pc = "resolved" /\ calls[c].cached
    /\ lastPoll # <<>> /\ calls[c].at[1] > lastPoll[1]
    /\ lastDone # <<>> /\ lastPoll = <<lastDone[1].time>>
    /\ calls[c].result = lastResult

\* the sockets that are open, and the most a call in flight may have
OpenChannels == {x \in Exchanges : ex[x[1]][x[2]].socket = "open"}
ChannelsOf(c) == IF Collecting(c) THEN Options(calls[c].inst).servers ELSE 0

C33_PollIffResult ==
  /\ lastPoll = <<>> <=> lastResult = <<>>
  /\ \A c \in Calls :
       /\ calls[c].pc # "TypeError"
       /\ calls[c].cached => calls[c].result # <<>>

\* a call answered from the cache while another call's round is in flight
C33_Witness ==
  \E c, d \in Calls :
    /\ calls[c].pc = "resolved" /\ calls[c].cached /\ calls[c].result = lastResult
    /\ lastPoll # <<>> /\ lastResult # <<>>
    /\ Collecting(d) /\ \E s \in DOMAIN ex[d] : ex[d][s].outcome = "ok"

====
